---------------------------- MODULE Spec2Model ----------------------------
(***************************************************************************)
(* A model of four parts of the LLM Training Platform:                     *)
(*   - the text chunker      (data_structuring/chunking/chunking_service)  *)
(*   - the training service  (model_training: routes, registry, manager)   *)
(*   - the agent service     (agent_deployment: routes, agent_manager)     *)
(*   - the ingestion service (document_ingestion: routes, service)         *)
(*                                                                         *)
(* Conventions of the model.  A name is read as the code evidently means   *)
(* it: settings.MAX_DEPLOYED_AGENTS is the max_deployed_agents field,      *)
(* datetime.utcnow() yields a timestamp, and an awaited ORM call yields    *)
(* the result of the call.  The database keeps committed rows only: a      *)
(* session (common/db/database.py) is created per request with             *)
(* autoflush=False and closed at the end of the request, so an attribute   *)
(* assigned to a loaded row and never committed is not stored.  Request    *)
(* handlers run one at a time on the event loop; training threads          *)
(* interleave with them at every statement.                                *)
(***************************************************************************)
EXTENDS Integers, Sequences, FiniteSets, TLC

VARIABLES
    \* chunker
    text, chunk_size, chunk_overlap, strategy, chunks,
    \* training service
    models, jobs, active_jobs, threads, tasks, loop, nextModel, response,
    \* agent service
    agents, deployed_agents, conversations, reply,
    \* document ingestion service
    documents, executing, handler, answer

chunkVars == <<text, chunk_size, chunk_overlap, strategy, chunks>>
trainVars == <<models, jobs, active_jobs, threads, tasks, loop, nextModel, response>>
agentVars == <<agents, deployed_agents, conversations, reply>>
docVars == <<documents, executing, handler, answer>>
vars == <<chunkVars, trainVars, agentVars, docVars>>

-----------------------------------------------------------------------------
(* Bounds *)

MaxTextLen == 4
MaxChunkSize == 3
MaxOverlap == 2
\* models created in a run of the training service
MaxModels == 2
\* iterations of the simulated training loop (100 in the source)
total_steps == 2
\* agent rows that exist at a time
MaxAgents == 2
\* conversations of an agent, and messages of a conversation
MaxConvs == 2
MaxMessages == 4
\* document rows that exist at a time
MaxDocs == 2

-----------------------------------------------------------------------------
(* Strings are sequences of one-character strings. *)

Alphabet == {"M", "r", ".", " ", "\n"}

Upper == {"M", "D", "P", "O", "I", "N", "T"}
Lower == {"r", "s", "o", "f", "e", "t", "c"}

\* \s of the regular expressions, and the characters str.strip() removes
IsSpace(c) == c \in {" ", "\n"}
\* \w of the regular expressions
IsWord(c) == c \in Upper \cup Lower
\* [.!?]
IsPunct(c) == c \in {".", "!", "?"}

Max(a, b) == IF a >= b THEN a ELSE b
Min(a, b) == IF a <= b THEN a ELSE b

\* s[i:] of Python, i counted from 0, negative i counted from the end
SliceFrom(s, i) ==
    LET start == IF i < 0 THEN Max(Len(s) + i, 0) ELSE Min(i, Len(s))
    IN  SubSeq(s, start + 1, Len(s))

\* s[-k:] of Python for k >= 1
Tail_(s, k) == SliceFrom(s, 0 - k)

\* bool(s.strip())
Strip(s) == \E i \in 1..Len(s) : ~IsSpace(s[i])

\* s.endswith(suffix)
EndsWith(s, suffix) ==
    /\ Len(s) >= Len(suffix)
    /\ SubSeq(s, Len(s) - Len(suffix) + 1, Len(s)) = suffix

\* prefix occurs in s at position i (1-based)
MatchAt(s, i, prefix) ==
    /\ i + Len(prefix) - 1 <= Len(s)
    /\ SubSeq(s, i, i + Len(prefix) - 1) = prefix

\* [x for x in ss if x.strip()]
RECURSIVE FilterStrip(_)
FilterStrip(ss) ==
    IF ss = <<>> THEN <<>>
    ELSE IF Strip(Head(ss)) THEN <<Head(ss)>> \o FilterStrip(Tail(ss))
         ELSE FilterStrip(Tail(ss))

\* sep.join(ss)
RECURSIVE Join(_, _)
Join(ss, sep) ==
    IF ss = <<>> THEN <<>>
    ELSE IF Len(ss) = 1 THEN Head(ss)
         ELSE Head(ss) \o sep \o Join(Tail(ss), sep)

\* s.split(): the maximal runs of non-whitespace characters
RECURSIVE Words(_, _, _)
Words(s, i, cur) ==
    IF i > Len(s) THEN (IF cur = <<>> THEN <<>> ELSE <<cur>>)
    ELSE IF IsSpace(s[i])
         THEN (IF cur = <<>> THEN <<>> ELSE <<cur>>) \o Words(s, i + 1, <<>>)
         ELSE Words(s, i + 1, Append(cur, s[i]))

-----------------------------------------------------------------------------
(* _split_into_sentences *)

POINT == <<"<", "P", "O", "I", "N", "T", ">">>

Abbreviations ==
    << <<"M", "r", ".">>, <<"M", "r", "s", ".">>, <<"D", "r", ".">>,
       <<"P", "r", "o", "f", ".">>, <<"e", "t", "c", ".">> >>

\* the abbreviation matching at position i, or <<>>
AbbrevAt(s, i) ==
    IF \E k \in 1..Len(Abbreviations) : MatchAt(s, i, Abbreviations[k])
    THEN Abbreviations[CHOOSE k \in 1..Len(Abbreviations) :
                          /\ MatchAt(s, i, Abbreviations[k])
                          /\ \A m \in 1..(k - 1) : ~MatchAt(s, i, Abbreviations[m])]
    ELSE <<>>

\* re.sub(r'(Mr\.|Mrs\.|Dr\.|Prof\.|etc\.)', r'\1<POINT>', s)
RECURSIVE MarkAbbrev(_, _)
MarkAbbrev(s, i) ==
    IF i > Len(s) THEN <<>>
    ELSE LET a == AbbrevAt(s, i)
         IN  IF a # <<>> THEN a \o POINT \o MarkAbbrev(s, i + Len(a))
             ELSE <<s[i]>> \o MarkAbbrev(s, i + 1)

\* re.sub(r'<POINT>', '.', s)
RECURSIVE RestorePoint(_, _)
RestorePoint(s, i) ==
    IF i > Len(s) THEN <<>>
    ELSE IF MatchAt(s, i, POINT) THEN <<".">> \o RestorePoint(s, i + Len(POINT))
         ELSE <<s[i]>> \o RestorePoint(s, i + 1)

\* (?<!\w\.\w.)(?<![A-Z][a-z]\.)(?<=\.|\?|\!)\s matches the character s[p]
SentenceBreak(s, p) ==
    /\ IsSpace(s[p])
    /\ p > 1 /\ IsPunct(s[p - 1])
    /\ ~(/\ p > 4
         /\ IsWord(s[p - 4]) /\ s[p - 3] = "." /\ IsWord(s[p - 2])
         /\ s[p - 1] # "\n")
    /\ ~(p > 3 /\ s[p - 3] \in Upper /\ s[p - 2] \in Lower /\ s[p - 1] = ".")

\* re.split of the sentence pattern: the pieces between the matches
RECURSIVE SplitSentences(_, _, _)
SplitSentences(s, i, cur) ==
    IF i > Len(s) THEN <<cur>>
    ELSE IF SentenceBreak(s, i) THEN <<cur>> \o SplitSentences(s, i + 1, <<>>)
         ELSE SplitSentences(s, i + 1, Append(cur, s[i]))

RECURSIVE MapRestore(_)
MapRestore(ss) ==
    IF ss = <<>> THEN <<>>
    ELSE <<RestorePoint(Head(ss), 1)>> \o MapRestore(Tail(ss))

split_into_sentences(s) ==
    FilterStrip(MapRestore(SplitSentences(MarkAbbrev(s, 1), 1, <<>>)))

-----------------------------------------------------------------------------
(* _split_into_paragraphs and the pattern \n\s*\n *)

\* the last index of the whitespace run that starts at s[i]
RECURSIVE SpaceRunEnd(_, _)
SpaceRunEnd(s, i) ==
    IF i < Len(s) /\ IsSpace(s[i + 1]) THEN SpaceRunEnd(s, i + 1) ELSE i

\* \n\s*\n matches at i: the greedy match ends at the last newline of the run
ParaEnd(s, i) ==
    IF s[i] # "\n" THEN 0
    ELSE LET e == SpaceRunEnd(s, i)
             nl == {j \in (i + 1)..e : s[j] = "\n"}
         IN  IF nl = {} THEN 0 ELSE CHOOSE j \in nl : \A k \in nl : k <= j

\* re.split(r'\n\s*\n', s)
RECURSIVE SplitParagraphs(_, _, _)
SplitParagraphs(s, i, cur) ==
    IF i > Len(s) THEN <<cur>>
    ELSE LET e == ParaEnd(s, i)
         IN  IF e > 0 THEN <<cur>> \o SplitParagraphs(s, e + 1, <<>>)
             ELSE SplitParagraphs(s, i + 1, Append(cur, s[i]))

split_into_paragraphs(s) == FilterStrip(SplitParagraphs(s, 1, <<>>))

\* end (0-based, exclusive) of the last match of \n\s*\n in s, 0 if none
RECURSIVE LastParaBoundary(_, _, _)
LastParaBoundary(s, i, last) ==
    IF i > Len(s) THEN last
    ELSE LET e == ParaEnd(s, i)
         IN  IF e > 0 THEN LastParaBoundary(s, e + 1, e)
             ELSE LastParaBoundary(s, i + 1, last)

\* end (0-based, exclusive) of the last match of [.!?]\s+ in s, 0 if none
RECURSIVE LastSentenceBoundary(_, _, _)
LastSentenceBoundary(s, i, last) ==
    IF i >= Len(s) THEN last
    ELSE IF IsPunct(s[i]) /\ IsSpace(s[i + 1])
         THEN LET e == SpaceRunEnd(s, i + 1)
              IN  LastSentenceBoundary(s, e + 1, e)
         ELSE LastSentenceBoundary(s, i + 1, last)

-----------------------------------------------------------------------------
(* ChunkingService *)

\* the chunks of range(0, len(text), step_size), lines 73-79
RECURSIVE FixedFrom(_, _, _, _)
FixedFrom(s, i, size, step_size) ==
    IF i >= Len(s) THEN <<>>
    ELSE LET chunk == SubSeq(s, i + 1, Min(i + size, Len(s)))
         IN  (IF Strip(chunk) THEN <<chunk>> ELSE <<>>)
                 \o FixedFrom(s, i + step_size, size, step_size)

chunk_by_fixed_size(s, size, overlap) ==
    LET step_size == IF size - overlap <= 0 THEN size ELSE size - overlap
    IN  FixedFrom(s, 0, size, step_size)

\* words[-min(5, len(words)):]
LastWords(words) == SubSeq(words, Len(words) - Min(5, Len(words)) + 1, Len(words))

\* the chunk that follows current_chunk in the sentence strategy, lines 108-124
SentenceCarry(current_chunk, overlap) ==
    IF overlap > 0
    THEN LET overlap_text == Tail_(current_chunk, overlap)
             last_boundary == LastSentenceBoundary(overlap_text, 1, 0)
             words == Words(overlap_text, 1, <<>>)
         IN  IF last_boundary > 0
             THEN SliceFrom(current_chunk, last_boundary - overlap)
             ELSE IF words # <<>> THEN Join(LastWords(words), <<" ">>) ELSE <<>>
    ELSE <<>>

\* the chunk that follows current_chunk in the paragraph strategy, lines 162-178
ParagraphCarry(current_chunk, overlap) ==
    IF overlap > 0
    THEN LET overlap_text == Tail_(current_chunk, overlap)
             last_boundary == LastParaBoundary(overlap_text, 1, 0)
             sentences == split_into_sentences(overlap_text)
         IN  IF last_boundary > 0
             THEN SliceFrom(current_chunk, last_boundary - overlap)
             ELSE IF sentences # <<>> THEN sentences[Len(sentences)] ELSE <<>>
    ELSE <<>>

\* one pass of the loop over the sentences or paragraphs; carry is the chunk
\* that follows a full one and sep the separator put between two pieces
CombineStep(st, piece, size, carry, sep) ==
    LET full == Len(st.current_chunk) + Len(piece) > size /\ st.current_chunk # <<>>
        started == IF full THEN carry ELSE st.current_chunk
        joined == IF started # <<>> /\ ~EndsWith(started, sep)
                  THEN started \o sep ELSE started
    IN  [chunks |-> IF full THEN Append(st.chunks, st.current_chunk) ELSE st.chunks,
         current_chunk |-> joined \o piece]

RECURSIVE CombineSentences(_, _, _, _)
CombineSentences(st, sentences, size, overlap) ==
    IF sentences = <<>> THEN st
    ELSE CombineSentences(
             CombineStep(st, Head(sentences), size,
                         SentenceCarry(st.current_chunk, overlap), <<" ">>),
             Tail(sentences), size, overlap)

RECURSIVE CombineParagraphs(_, _, _, _)
CombineParagraphs(st, paragraphs, size, overlap) ==
    IF paragraphs = <<>> THEN st
    ELSE CombineParagraphs(
             CombineStep(st, Head(paragraphs), size,
                         ParagraphCarry(st.current_chunk, overlap), <<"\n", "\n">>),
             Tail(paragraphs), size, overlap)

\* the last chunk is added if it is not blank
Finish(st) ==
    IF Strip(st.current_chunk) THEN Append(st.chunks, st.current_chunk) ELSE st.chunks

chunk_by_sentence(s, size, overlap) ==
    Finish(CombineSentences([chunks |-> <<>>, current_chunk |-> <<>>],
                            split_into_sentences(s), size, overlap))

chunk_by_paragraph(s, size, overlap) ==
    Finish(CombineParagraphs([chunks |-> <<>>, current_chunk |-> <<>>],
                             split_into_paragraphs(s), size, overlap))

chunk_by_semantic(s, size, overlap) == chunk_by_sentence(s, size, overlap)

chunk_text(s, size, overlap, strat) ==
    IF s = <<>> THEN <<>>
    ELSE CASE strat = "fixed_size" -> chunk_by_fixed_size(s, size, overlap)
           [] strat = "sentence"   -> chunk_by_sentence(s, size, overlap)
           [] strat = "paragraph"  -> chunk_by_paragraph(s, size, overlap)
           [] strat = "semantic"   -> chunk_by_semantic(s, size, overlap)
           [] OTHER                -> chunk_by_fixed_size(s, size, overlap)

-----------------------------------------------------------------------------
(* The chunker as a state machine: an input is drawn, chunk_text is applied *)

Strategies == {"fixed_size", "sentence", "paragraph"}

Texts == UNION {[1..n -> Alphabet] : n \in 0..MaxTextLen}

ChunkText ==
    /\ ~chunks.returned
    /\ chunks' = [returned |-> TRUE,
                  list |-> chunk_text(text, chunk_size, chunk_overlap, strategy)]
    /\ UNCHANGED <<text, chunk_size, chunk_overlap, strategy>>
    /\ UNCHANGED <<trainVars, agentVars, docVars>>

\* c == t[i:j] for some i, j
IsSlice(c, t) ==
    \E i \in 0..(Len(t) - Len(c)) : SubSeq(t, i + 1, i + Len(c)) = c

-----------------------------------------------------------------------------
(* The training service: the database rows (models, jobs), the registry of *)
(* running jobs (active_jobs), the training threads, the queued background *)
(* tasks and the request handler the event loop is in.  A training job has *)
(* the id of the model it was created with.  response is the HTTP response *)
(* sent by the step just taken, NoResponse when the step sent none.        *)

MAX_TRAINING_JOBS == 2

Users == {"ann", "bob", "root"}
\* the users who create models and agents
Creators == {"ann"}
\* current_user.get("is_admin", False)
is_admin(u) == u = "root"

ModelIds == 1..(MAX_TRAINING_JOBS + 1)

Idle == [op |-> "idle", job |-> 0]
NoResponse == [op |-> "none", id |-> 0, access |-> FALSE, code |-> 0]
Response(op, id, access, code) ==
    [op |-> op, id |-> id, access |-> access, code |-> code]

Remove(f, x) == [y \in DOMAIN f \ {x} |-> f[y]]

\* model.user_id != current_user["id"] and not is_admin is the 403 test
has_access(u, m) == models[m].user_id = u \/ is_admin(u)

\* ModelRegistry.update_training_job on db = [models, jobs]; the status ""
\* and the progress -1 stand for None
update_training_job(db, job_id, status, progress) ==
    IF job_id \notin DOMAIN db.jobs THEN db
    ELSE LET job == db.jobs[job_id]
             m == job.model_id
             synced == /\ status \in {"completed", "failed"}
                       /\ m \in DOMAIN db.models
         IN  [models |-> IF synced
                         THEN [db.models EXCEPT ![m].status =
                                  IF status = "completed" THEN "ready" ELSE "failed"]
                         ELSE db.models,
              jobs |-> [db.jobs EXCEPT
                           ![job_id].status = IF status # "" THEN status ELSE @,
                           ![job_id].progress = IF progress # -1 THEN progress ELSE @]]

DB == [models |-> models, jobs |-> jobs]

\* POST /models/fine-tune: a model, its training job, and the background task
create_fine_tuning_model(u, cap) ==
    /\ loop = Idle
    /\ nextModel <= cap
    /\ models' = (nextModel :> [user_id |-> u, model_type |-> "fine_tuned",
                                status |-> "training"]) @@ models
    /\ jobs' = (nextModel :> [model_id |-> nextModel, status |-> "pending",
                              progress |-> 0]) @@ jobs
    /\ tasks' = tasks \cup {nextModel}
    /\ nextModel' = nextModel + 1
    /\ response' = Response("create_fine_tuning_model", nextModel, TRUE, 200)
    /\ UNCHANGED <<active_jobs, threads, loop>>
    /\ UNCHANGED <<chunkVars, agentVars, docVars>>

\* POST /models/rag: the model is READY as soon as it is created
create_rag_model(u, dataset_found, cap) ==
    /\ loop = Idle
    /\ nextModel <= cap
    /\ IF dataset_found
       THEN /\ models' = (nextModel :> [user_id |-> u, model_type |-> "rag",
                                        status |-> "ready"]) @@ models
            /\ nextModel' = nextModel + 1
            /\ response' = Response("create_rag_model", nextModel, TRUE, 200)
       ELSE /\ response' = Response("create_rag_model", 0, TRUE, 500)
            /\ UNCHANGED <<models, nextModel>>
    /\ UNCHANGED <<jobs, active_jobs, threads, tasks, loop>>
    /\ UNCHANGED <<chunkVars, agentVars, docVars>>

\* TrainingManager.start_training_job up to training_thread.start()
start_training_job(j) ==
    /\ loop = Idle
    /\ j \in tasks
    /\ tasks' = tasks \ {j}
    /\ response' = NoResponse
    /\ IF /\ j \in DOMAIN jobs
          /\ jobs[j].status # "running"
          /\ jobs[j].model_id \in DOMAIN models
       THEN /\ jobs' = update_training_job(DB, j, "preparing", 0).jobs
            /\ threads' = (j :> [pc |-> "start", step |-> 0, stop_event |-> FALSE,
                                 failed |-> FALSE]) @@ threads
            /\ loop' = [op |-> "start_training_job", job |-> j]
       ELSE UNCHANGED <<jobs, threads, loop>>
    /\ UNCHANGED <<models, active_jobs, nextModel>>
    /\ UNCHANGED <<chunkVars, agentVars, docVars>>

\* start_training_job after training_thread.start(): active_jobs[job_id] = ...
register_active_job ==
    /\ loop.op = "start_training_job"
    /\ active_jobs' = active_jobs \cup {loop.job}
    /\ loop' = Idle
    /\ response' = NoResponse
    /\ UNCHANGED <<models, jobs, threads, tasks, nextModel>>
    /\ UNCHANGED <<chunkVars, agentVars, docVars>>

\* progress = step / total_steps * 100
Progress(step) == (step * 100) \div total_steps

\* _run_lora_training before the loop: RUNNING, and FAILED without the model
thread_begin(j) ==
    /\ j \in DOMAIN threads
    /\ threads[j].pc = "start"
    /\ LET running == update_training_job(DB, j, "running", 0)
           found == j \in DOMAIN jobs => jobs[j].model_id \in DOMAIN models
           after == IF found THEN running
                    ELSE update_training_job(running, j, "failed", -1)
       IN  /\ models' = after.models
           /\ jobs' = after.jobs
           /\ threads' = [threads EXCEPT ![j].pc = IF found THEN "loop" ELSE "exit",
                                         ![j].failed = ~found]
    /\ response' = NoResponse
    /\ UNCHANGED <<active_jobs, tasks, loop, nextModel>>
    /\ UNCHANGED <<chunkVars, agentVars, docVars>>

\* one iteration of for step in range(total_steps + 1)
thread_step(j) ==
    /\ j \in DOMAIN threads
    /\ threads[j].pc = "loop"
    /\ threads[j].step <= total_steps
    /\ IF threads[j].stop_event
       THEN /\ threads' = [threads EXCEPT ![j].pc = "exit"]
            /\ UNCHANGED jobs
       ELSE /\ jobs' = update_training_job(DB, j, "", Progress(threads[j].step)).jobs
            /\ threads' = [threads EXCEPT ![j].step = @ + 1]
    /\ response' = NoResponse
    /\ UNCHANGED <<models, active_jobs, tasks, loop, nextModel>>
    /\ UNCHANGED <<chunkVars, agentVars, docVars>>

\* _run_lora_training that ends without the COMPLETED update
thread_complete_unmarked(j) ==
    /\ j \in DOMAIN threads
    /\ threads[j].pc = "loop"
    /\ threads[j].step > total_steps
    /\ active_jobs' = active_jobs \ {j}
    /\ threads' = [threads EXCEPT ![j].pc = "exit"]
    /\ response' = NoResponse
    /\ UNCHANGED <<models, jobs, tasks, loop, nextModel>>
    /\ UNCHANGED <<chunkVars, agentVars, docVars>>

\* _run_lora_training after the loop: COMPLETED, and the entry is removed
thread_complete(j) ==
    /\ j \in DOMAIN threads
    /\ threads[j].pc = "loop"
    /\ threads[j].step > total_steps
    /\ LET after == update_training_job(DB, j, "completed", 100)
       IN  /\ models' = after.models
           /\ jobs' = after.jobs
    /\ active_jobs' = active_jobs \ {j}
    /\ threads' = [threads EXCEPT ![j].pc = "exit"]
    /\ response' = NoResponse
    /\ UNCHANGED <<tasks, loop, nextModel>>
    /\ UNCHANGED <<chunkVars, agentVars, docVars>>

Cancellable == {"pending", "preparing", "running"}

\* POST /training-jobs/{job_id}/cancel up to the call of stop_training_job
cancel_training_job(u, j) ==
    /\ loop = Idle
    /\ IF j \notin DOMAIN jobs
       THEN response' = Response("cancel_training_job", j, FALSE, 404) /\ UNCHANGED loop
       ELSE IF jobs[j].model_id \notin DOMAIN models
       THEN response' = Response("cancel_training_job", j, FALSE, 404) /\ UNCHANGED loop
       ELSE IF ~has_access(u, jobs[j].model_id)
       THEN response' = Response("cancel_training_job", j, FALSE, 403) /\ UNCHANGED loop
       ELSE IF jobs[j].status \notin Cancellable
       THEN response' = Response("cancel_training_job", j, TRUE, 400) /\ UNCHANGED loop
       ELSE response' = NoResponse /\ loop' = [op |-> "cancel_training_job", job |-> j]
    /\ UNCHANGED <<models, jobs, active_jobs, threads, tasks, nextModel>>
    /\ UNCHANGED <<chunkVars, agentVars, docVars>>

\* stop_training_job: the test of active_jobs and stop_event.set()
stop_training_job ==
    /\ loop.op = "cancel_training_job"
    /\ IF loop.job \in active_jobs
       THEN /\ threads' = [threads EXCEPT ![loop.job].stop_event = TRUE]
            /\ loop' = [op |-> "join", job |-> loop.job]
            /\ response' = NoResponse
       ELSE /\ loop' = Idle
            /\ response' = Response("cancel_training_job", loop.job, TRUE, 200)
            /\ UNCHANGED threads
    /\ UNCHANGED <<models, jobs, active_jobs, tasks, nextModel>>
    /\ UNCHANGED <<chunkVars, agentVars, docVars>>

\* stop_training_job once the thread has ended: the entry is deleted (a
\* KeyError when the thread deleted it first) and the job is CANCELLED
join_training_thread ==
    /\ loop.op = "join"
    /\ threads[loop.job].pc = "exit"
    /\ IF loop.job \in active_jobs
       THEN /\ active_jobs' = active_jobs \ {loop.job}
            /\ jobs' = update_training_job(DB, loop.job, "cancelled", -1).jobs
            /\ response' = Response("cancel_training_job", loop.job, TRUE, 200)
       ELSE /\ response' = Response("cancel_training_job", loop.job, TRUE, 500)
            /\ UNCHANGED <<active_jobs, jobs>>
    /\ loop' = Idle
    /\ UNCHANGED <<models, threads, tasks, nextModel>>
    /\ UNCHANGED <<chunkVars, agentVars, docVars>>

\* run_inference without the test of model.status
run_inference_unchecked(u, m) ==
    /\ loop = Idle
    /\ response' =
         IF m \notin DOMAIN models THEN Response("run_inference", m, FALSE, 404)
         ELSE IF ~has_access(u, m) THEN Response("run_inference", m, FALSE, 403)
         ELSE Response("run_inference", m, TRUE, 200)
    /\ UNCHANGED <<models, jobs, active_jobs, threads, tasks, loop, nextModel>>
    /\ UNCHANGED <<chunkVars, agentVars, docVars>>

\* POST /inference
run_inference(u, m) ==
    /\ loop = Idle
    /\ response' =
         IF m \notin DOMAIN models THEN Response("run_inference", m, FALSE, 404)
         ELSE IF ~has_access(u, m) THEN Response("run_inference", m, FALSE, 403)
         ELSE IF models[m].status # "ready" THEN Response("run_inference", m, TRUE, 400)
         ELSE Response("run_inference", m, TRUE, 200)
    /\ UNCHANGED <<models, jobs, active_jobs, threads, tasks, loop, nextModel>>
    /\ UNCHANGED <<chunkVars, agentVars, docVars>>

\* POST /rag/inference; RAGService.query returns or raises
run_rag_inference(u, m) ==
    /\ loop = Idle
    /\ response' \in
         IF m \notin DOMAIN models THEN {Response("run_rag_inference", m, FALSE, 404)}
         ELSE IF ~has_access(u, m) THEN {Response("run_rag_inference", m, FALSE, 403)}
         ELSE IF models[m].model_type # "rag"
         THEN {Response("run_rag_inference", m, TRUE, 400)}
         ELSE IF models[m].status # "ready"
         THEN {Response("run_rag_inference", m, TRUE, 400)}
         ELSE {Response("run_rag_inference", m, TRUE, 200),
               Response("run_rag_inference", m, TRUE, 500)}
    /\ UNCHANGED <<models, jobs, active_jobs, threads, tasks, loop, nextModel>>
    /\ UNCHANGED <<chunkVars, agentVars, docVars>>

\* delete_model without the test of model.user_id and is_admin
delete_model_unguarded(u, m) ==
    /\ loop = Idle
    /\ IF m \notin DOMAIN models
       THEN response' = Response("delete_model", m, FALSE, 404) /\ UNCHANGED models
       ELSE /\ models' = Remove(models, m)
            /\ response' = Response("delete_model", m, has_access(u, m), 200)
    /\ UNCHANGED <<jobs, active_jobs, threads, tasks, loop, nextModel>>
    /\ UNCHANGED <<chunkVars, agentVars, docVars>>

\* DELETE /models/{model_id}: ModelRegistry.delete_model deletes the model row
\* and no other
delete_model(u, m) ==
    /\ loop = Idle
    /\ IF m \notin DOMAIN models
       THEN response' = Response("delete_model", m, FALSE, 404) /\ UNCHANGED models
       ELSE IF ~has_access(u, m)
       THEN response' = Response("delete_model", m, FALSE, 403) /\ UNCHANGED models
       ELSE /\ models' = Remove(models, m)
            /\ response' = Response("delete_model", m, TRUE, 200)
    /\ UNCHANGED <<jobs, active_jobs, threads, tasks, loop, nextModel>>
    /\ UNCHANGED <<chunkVars, agentVars, docVars>>

\* GET /models/{model_id}
get_model(u, m) ==
    /\ loop = Idle
    /\ response' =
         IF m \notin DOMAIN models THEN Response("get_model", m, FALSE, 404)
         ELSE IF ~has_access(u, m) THEN Response("get_model", m, FALSE, 403)
         ELSE Response("get_model", m, TRUE, 200)
    /\ UNCHANGED <<models, jobs, active_jobs, threads, tasks, loop, nextModel>>
    /\ UNCHANGED <<chunkVars, agentVars, docVars>>

\* GET /training-jobs; m = 0 is a request without model_id, which is answered
\* with an empty list
list_training_jobs(u, m) ==
    /\ loop = Idle
    /\ response' =
         IF m = 0 THEN Response("list_training_jobs", m, TRUE, 200)
         ELSE IF m \notin DOMAIN models
         THEN Response("list_training_jobs", m, FALSE, 404)
         ELSE IF ~has_access(u, m) THEN Response("list_training_jobs", m, FALSE, 403)
         ELSE Response("list_training_jobs", m, TRUE, 200)
    /\ UNCHANGED <<models, jobs, active_jobs, threads, tasks, loop, nextModel>>
    /\ UNCHANGED <<chunkVars, agentVars, docVars>>

\* GET /training-jobs/{job_id}
get_training_job(u, j) ==
    /\ loop = Idle
    /\ response' =
         IF j \notin DOMAIN jobs THEN Response("get_training_job", j, FALSE, 404)
         ELSE IF jobs[j].model_id \notin DOMAIN models
         THEN Response("get_training_job", j, FALSE, 404)
         ELSE IF ~has_access(u, jobs[j].model_id)
         THEN Response("get_training_job", j, FALSE, 403)
         ELSE Response("get_training_job", j, TRUE, 200)
    /\ UNCHANGED <<models, jobs, active_jobs, threads, tasks, loop, nextModel>>
    /\ UNCHANGED <<chunkVars, agentVars, docVars>>

TrainNext(cap) ==
    \/ \E u \in Creators : create_fine_tuning_model(u, cap)
    \/ \E u \in Creators, found \in BOOLEAN : create_rag_model(u, found, cap)
    \/ \E j \in ModelIds : start_training_job(j)
    \/ register_active_job
    \/ \E j \in ModelIds : thread_begin(j)
    \/ \E j \in ModelIds : thread_step(j)
    \/ \E j \in ModelIds : thread_complete(j)
    \/ \E u \in Users, j \in 1..cap : cancel_training_job(u, j)
    \/ stop_training_job
    \/ join_training_thread
    \/ \E u \in Users, m \in 1..cap : run_inference(u, m)
    \/ \E u \in Users, m \in 1..cap : run_rag_inference(u, m)
    \/ \E u \in Users, m \in 1..cap : delete_model(u, m)

\* fine-tuning requests only, and the jobs they start
LoadNext(cap) ==
    \/ \E u \in Creators : create_fine_tuning_model(u, cap)
    \/ \E j \in ModelIds : start_training_job(j)
    \/ register_active_job
    \/ \E j \in ModelIds : thread_begin(j)
    \/ \E j \in ModelIds : thread_step(j)
    \/ \E j \in ModelIds : thread_complete(j)

\* every endpoint of the training service
AccessNext(cap) ==
    \/ TrainNext(cap)
    \/ \E u \in Users, m \in 1..cap : get_model(u, m)
    \/ \E u \in Users, m \in 0..cap : list_training_jobs(u, m)
    \/ \E u \in Users, j \in 1..cap : get_training_job(u, j)

-----------------------------------------------------------------------------
(* The agent service: the committed agent and conversation rows, and the   *)
(* in-memory registry deployed_agents.  A registry entry holds the agent    *)
(* object deploy_agent was given (its status is the status of that object, *)
(* not of the row) and the active conversations.  A new row takes the      *)
(* least id no row has.  reply is the outcome of the request just handled: *)
(* ret is what deploy_agent or stop_agent returned ("none": not called),   *)
(* status the status of the agent object that call left behind.            *)

MAX_DEPLOYED_AGENTS == 5

ConvIds == 1..MaxConvs

NoReply == [op |-> "none", id |-> 0, owner |-> FALSE, code |-> 0,
            ret |-> "none", status |-> "none", conv |-> 0]
Reply(op, id, owner, code, ret, status, conv) ==
    [op |-> op, id |-> id, owner |-> owner, code |-> code,
     ret |-> ret, status |-> status, conv |-> conv]

Bool(b) == IF b THEN "True" ELSE "False"

LeastFree(ids, used) == CHOOSE i \in ids \ used : \A k \in ids \ used : i <= k

\* db.query(Agent).filter(Agent.id == a, Agent.user_id == u).first()
owned(u, a) == a \in DOMAIN agents /\ agents[a].user_id = u

\* deploy_agent with len(deployed_agents) > MAX_DEPLOYED_AGENTS as the test
deploy_agent_off_by_one(reg, agent) ==
    IF agent.id \in DOMAIN reg
    THEN [ret |-> TRUE, agent |-> agent, registry |-> reg]
    ELSE IF Cardinality(DOMAIN reg) > MAX_DEPLOYED_AGENTS
    THEN [ret |-> FALSE, agent |-> agent, registry |-> reg]
    ELSE IF agent.agent_type \notin {"fine_tuned", "rag"}
    THEN [ret |-> FALSE, agent |-> [agent EXCEPT !.status = "deploying"],
          registry |-> reg]
    ELSE LET deployed == [agent EXCEPT !.status = "deployed"]
         IN  [ret |-> TRUE, agent |-> deployed,
              registry |-> (agent.id :> [agent |-> deployed,
                                         active_conversations |-> <<>>]) @@ reg]

\* agent_manager.deploy_agent on the registry reg: the value returned, the
\* agent object afterwards and the registry afterwards
deploy_agent(reg, agent) ==
    IF agent.id \in DOMAIN reg
    THEN [ret |-> TRUE, agent |-> agent, registry |-> reg]
    ELSE IF Cardinality(DOMAIN reg) >= MAX_DEPLOYED_AGENTS
    THEN [ret |-> FALSE, agent |-> agent, registry |-> reg]
    ELSE IF agent.agent_type \notin {"fine_tuned", "rag"}
    THEN [ret |-> FALSE, agent |-> [agent EXCEPT !.status = "deploying"],
          registry |-> reg]
    ELSE LET deployed == [agent EXCEPT !.status = "deployed"]
         IN  [ret |-> TRUE, agent |-> deployed,
              registry |-> (agent.id :> [agent |-> deployed,
                                         active_conversations |-> <<>>]) @@ reg]

\* stop_agent without del deployed_agents[agent_id]
stop_agent_kept(reg, agent_id) ==
    IF agent_id \notin DOMAIN reg
    THEN [ret |-> TRUE, status |-> "none", registry |-> reg]
    ELSE [ret |-> TRUE, status |-> "stopped",
          registry |-> [reg EXCEPT ![agent_id].agent.status = "stopped"]]

\* agent_manager.stop_agent on the registry reg: the value returned, the
\* status left on the registered agent object and the registry afterwards
stop_agent(reg, agent_id) ==
    IF agent_id \notin DOMAIN reg
    THEN [ret |-> TRUE, status |-> "none", registry |-> reg]
    ELSE [ret |-> TRUE, status |-> "stopped", registry |-> Remove(reg, agent_id)]

\* POST /agents: the row is committed as CREATED, then deploy_agent is called
\* on it; the status deploy_agent assigns is never committed
create_agent(u, ids) ==
    /\ ids \ DOMAIN agents # {}
    /\ LET a == LeastFree(ids, DOMAIN agents)
           row == [user_id |-> u, status |-> "created", agent_type |-> "fine_tuned"]
           d == deploy_agent(deployed_agents,
                             [id |-> a, status |-> row.status,
                              agent_type |-> row.agent_type])
       IN  /\ agents' = (a :> row) @@ agents
           /\ deployed_agents' = d.registry
           /\ reply' = Reply("create_agent", a, TRUE, IF d.ret THEN 201 ELSE 500,
                             Bool(d.ret), d.agent.status, 0)
    /\ UNCHANGED conversations
    /\ UNCHANGED <<chunkVars, trainVars, docVars>>

\* POST /agents/{agent_id}/deploy: deploy_agent on the loaded row, then
\* db.refresh(agent) gives the object the status of the row again
deploy_agent_endpoint(u, a) ==
    /\ IF ~owned(u, a)
       THEN /\ reply' = Reply("deploy_agent_endpoint", a, FALSE, 404, "none", "none", 0)
            /\ UNCHANGED deployed_agents
       ELSE LET d == deploy_agent(deployed_agents,
                                  [id |-> a, status |-> agents[a].status,
                                   agent_type |-> agents[a].agent_type])
                refreshed == [d.agent EXCEPT !.status = agents[a].status]
            IN  /\ deployed_agents' =
                      IF d.ret /\ a \notin DOMAIN deployed_agents
                      THEN [d.registry EXCEPT ![a].agent = refreshed]
                      ELSE d.registry
                /\ reply' = Reply("deploy_agent_endpoint", a, TRUE,
                                  IF d.ret THEN 200 ELSE 500,
                                  Bool(d.ret), d.agent.status, 0)
    /\ UNCHANGED <<agents, conversations>>
    /\ UNCHANGED <<chunkVars, trainVars, docVars>>

\* POST /agents/{agent_id}/stop
stop_agent_endpoint(u, a) ==
    /\ IF ~owned(u, a)
       THEN /\ reply' = Reply("stop_agent_endpoint", a, FALSE, 404, "none", "none", 0)
            /\ UNCHANGED deployed_agents
       ELSE LET st == stop_agent(deployed_agents, a)
            IN  /\ deployed_agents' = st.registry
                /\ reply' = Reply("stop_agent_endpoint", a, TRUE,
                                  IF st.ret THEN 200 ELSE 500,
                                  Bool(st.ret), st.status, 0)
    /\ UNCHANGED <<agents, conversations>>
    /\ UNCHANGED <<chunkVars, trainVars, docVars>>

\* DELETE /agents/{agent_id}: stop_agent, then the row is deleted
delete_agent(u, a) ==
    /\ IF ~owned(u, a)
       THEN /\ reply' = Reply("delete_agent", a, FALSE, 404, "none", "none", 0)
            /\ UNCHANGED <<agents, deployed_agents>>
       ELSE LET st == stop_agent(deployed_agents, a)
            IN  /\ deployed_agents' = st.registry
                /\ agents' = Remove(agents, a)
                /\ reply' = Reply("delete_agent", a, TRUE, 204,
                                  Bool(st.ret), st.status, 0)
    /\ UNCHANGED conversations
    /\ UNCHANGED <<chunkVars, trainVars, docVars>>

\* agent_manager.add_message_to_conversation followed by generate_response:
\* the user message and the assistant message are appended
Exchange(reg, a, c) ==
    [reg EXCEPT ![a].active_conversations[c] = @ \o <<"user", "assistant">>]

\* POST /chat; conv = 0 is a request without conversation_id
chat(u, a, conv) ==
    /\ IF ~owned(u, a)
       THEN /\ reply' = Reply("chat", a, FALSE, 404, "none", "none", conv)
            /\ UNCHANGED deployed_agents
       ELSE IF agents[a].status # "deployed"
       THEN /\ reply' = Reply("chat", a, TRUE, 400, "none", "none", conv)
            /\ UNCHANGED deployed_agents
       ELSE IF conv = 0
       THEN \* create_conversation: kept in the registry entry only
            IF a \notin DOMAIN deployed_agents
            THEN /\ reply' = Reply("chat", a, TRUE, 500, "none", "none", conv)
                 /\ UNCHANGED deployed_agents
            ELSE /\ ConvIds \ DOMAIN deployed_agents[a].active_conversations # {}
                 /\ LET c == LeastFree(ConvIds,
                                       DOMAIN deployed_agents[a].active_conversations)
                        made == [deployed_agents EXCEPT ![a].active_conversations =
                                    (c :> <<>>) @@ @]
                    IN  /\ deployed_agents' = Exchange(made, a, c)
                        /\ reply' = Reply("chat", a, TRUE, 200, "none", "none", c)
       ELSE IF [id |-> conv, agent_id |-> a, user_id |-> u] \notin conversations
       THEN /\ reply' = Reply("chat", a, TRUE, 404, "none", "none", conv)
            /\ UNCHANGED deployed_agents
       ELSE IF \/ a \notin DOMAIN deployed_agents
               \/ conv \notin DOMAIN deployed_agents[a].active_conversations
       THEN /\ reply' = Reply("chat", a, TRUE, 500, "none", "none", conv)
            /\ UNCHANGED deployed_agents
       ELSE /\ Len(deployed_agents[a].active_conversations[conv]) + 2 <= MaxMessages
            /\ deployed_agents' = Exchange(deployed_agents, a, conv)
            /\ reply' = Reply("chat", a, TRUE, 200, "none", "none", conv)
    /\ UNCHANGED <<agents, conversations>>
    /\ UNCHANGED <<chunkVars, trainVars, docVars>>

AgentNext(ids, users) ==
    \/ \E u \in users \cap Creators : create_agent(u, ids)
    \/ \E u \in users, a \in ids : deploy_agent_endpoint(u, a)
    \/ \E u \in users, a \in ids : stop_agent_endpoint(u, a)
    \/ \E u \in users, a \in ids : delete_agent(u, a)
    \/ \E u \in users, a \in ids, conv \in {0} \cup ConvIds : chat(u, a, conv)

-----------------------------------------------------------------------------
(* The document ingestion service: the committed document rows, the number  *)
(* of IngestionService.process_document executions in progress for each     *)
(* document, and the request handler the event loop is in.  The service is  *)
(* one uvicorn process (document_ingestion/main.py); process_document is a  *)
(* synchronous call inside an async handler, so the loop handles no other   *)
(* request until it returns.  answer is the HTTP response of the step just  *)
(* taken, with the requester, and with the size and the extension of the   *)
(* file an upload was given.                                                *)
(* settings.document is not defined in common/config/settings.py: the size  *)
(* limit and the extensions are given the values below.                     *)

\* settings.document.max_file_size_mb * 1024 * 1024, in bytes
max_file_size == 2
\* settings.document.allowed_extensions
allowed_extensions == {".pdf", ".docx", ".txt"}

FileSizes == {max_file_size - 1, max_file_size, max_file_size + 1}
Extensions == {".pdf", ".PDF", ".txt", ".exe", ""}
\* ext.lower()
lower(ext) == IF ext = ".PDF" THEN ".pdf" ELSE ext

DocIds == 1..MaxDocs

Free == [op |-> "free", doc |-> 0]
NoAnswer == [op |-> "none", user |-> "", doc |-> 0, code |-> 0, size |-> 0,
             ext |-> ""]
Answer(op, user, doc, code, size, ext) ==
    [op |-> op, user |-> user, doc |-> doc, code |-> code, size |-> size,
     ext |-> ext]

\* POST /documents/upload: the HTTPException of a failed test is raised inside
\* the try block, whose handlers are except ValueError and except Exception,
\* so it is answered as 500; an accepted file gets a row with status UPLOADED
upload_document(u, size, ext) ==
    /\ handler = Free
    /\ IF size > max_file_size
       THEN /\ answer' = Answer("upload_document", u, 0, 500, size, ext)
            /\ UNCHANGED documents
       ELSE IF lower(ext) \notin allowed_extensions
       THEN /\ answer' = Answer("upload_document", u, 0, 500, size, ext)
            /\ UNCHANGED documents
       ELSE /\ DocIds \ DOMAIN documents # {}
            /\ LET d == LeastFree(DocIds, DOMAIN documents)
               IN  /\ documents' = (d :> [user_id |-> u, status |-> "uploaded"])
                                       @@ documents
                   /\ answer' = Answer("upload_document", u, d, 200, size, ext)
    /\ UNCHANGED <<executing, handler>>
    /\ UNCHANGED <<chunkVars, trainVars, agentVars>>

\* process_document without the test of DocumentStatus.PROCESSING
process_document_unchecked(u, d) ==
    /\ handler = Free
    /\ IF d \notin DOMAIN documents
       THEN /\ answer' = Answer("process_document", u, d, 404, 0, "")
            /\ UNCHANGED <<documents, executing, handler>>
       ELSE IF documents[d].user_id # u
       THEN /\ answer' = Answer("process_document", u, d, 403, 0, "")
            /\ UNCHANGED <<documents, executing, handler>>
       ELSE /\ documents' = [documents EXCEPT ![d].status = "processing"]
            /\ executing' = [executing EXCEPT ![d] = @ + 1]
            /\ handler' = [op |-> "process_document", doc |-> d]
            /\ answer' = NoAnswer
    /\ UNCHANGED <<chunkVars, trainVars, agentVars>>

\* POST /documents/{document_id}/process up to the commit of PROCESSING in
\* IngestionService.process_document
process_document(u, d) ==
    /\ handler = Free
    /\ IF d \notin DOMAIN documents
       THEN /\ answer' = Answer("process_document", u, d, 404, 0, "")
            /\ UNCHANGED <<documents, executing, handler>>
       ELSE IF documents[d].user_id # u
       THEN /\ answer' = Answer("process_document", u, d, 403, 0, "")
            /\ UNCHANGED <<documents, executing, handler>>
       ELSE IF documents[d].status = "processing"
       THEN /\ answer' = Answer("process_document", u, d, 400, 0, "")
            /\ UNCHANGED <<documents, executing, handler>>
       ELSE /\ documents' = [documents EXCEPT ![d].status = "processing"]
            /\ executing' = [executing EXCEPT ![d] = @ + 1]
            /\ handler' = [op |-> "process_document", doc |-> d]
            /\ answer' = NoAnswer
    /\ UNCHANGED <<chunkVars, trainVars, agentVars>>

\* the ways IngestionService.process_document ends: the result succeeded or
\* failed, or an exception was raised and the status was set to ERROR, or the
\* update of the status failed as well
Outcomes == {"processed", "failed", "raised", "update_failed"}

\* the rest of IngestionService.process_document and of the handler
process_document_return(outcome) ==
    /\ handler.op = "process_document"
    /\ LET d == handler.doc
       IN  /\ documents' =
                 [documents EXCEPT ![d].status =
                     CASE outcome = "processed" -> "processed"
                       [] outcome = "update_failed" -> "processing"
                       [] OTHER -> "error"]
           /\ executing' = [executing EXCEPT ![d] = @ - 1]
           /\ answer' = Answer("process_document", documents[d].user_id, d,
                               IF outcome \in {"processed", "failed"} THEN 200 ELSE 500,
                               0, "")
    /\ handler' = Free
    /\ UNCHANGED <<chunkVars, trainVars, agentVars>>

IngestNext ==
    \/ \E u \in Creators, size \in FileSizes, ext \in Extensions :
           upload_document(u, size, ext)
    \/ \E u \in Users, d \in DocIds : process_document(u, d)
    \/ \E outcome \in Outcomes : process_document_return(outcome)

-----------------------------------------------------------------------------
(* Specifications *)

\* nothing created, nothing running, no text given
Init ==
    /\ text = <<>>
    /\ chunk_size = 1
    /\ chunk_overlap = 0
    /\ strategy = "fixed_size"
    /\ chunks = [returned |-> FALSE, list |-> <<>>]
    /\ models = <<>>
    /\ jobs = <<>>
    /\ active_jobs = {}
    /\ threads = <<>>
    /\ tasks = {}
    /\ loop = Idle
    /\ nextModel = 1
    /\ response = NoResponse
    /\ agents = <<>>
    /\ deployed_agents = <<>>
    /\ conversations = {}
    /\ reply = NoReply
    /\ documents = <<>>
    /\ executing = [d \in DocIds |-> 0]
    /\ handler = Free
    /\ answer = NoAnswer

\* the services as in Init, and a text, a size, an overlap and a strategy
ChunkInit ==
    /\ text \in Texts
    /\ chunk_size \in 1..MaxChunkSize
    /\ chunk_overlap \in 0..MaxOverlap
    /\ strategy \in Strategies
    /\ chunks = [returned |-> FALSE, list |-> <<>>]
    /\ models = <<>>
    /\ jobs = <<>>
    /\ active_jobs = {}
    /\ threads = <<>>
    /\ tasks = {}
    /\ loop = Idle
    /\ nextModel = 1
    /\ response = NoResponse
    /\ agents = <<>>
    /\ deployed_agents = <<>>
    /\ conversations = {}
    /\ reply = NoReply
    /\ documents = <<>>
    /\ executing = [d \in DocIds |-> 0]
    /\ handler = Free
    /\ answer = NoAnswer

\* the chunker applied to every text, size, overlap and strategy in the bounds
SpecChunk == ChunkInit /\ [][ChunkText]_vars

\* the training service with every request of every user and MaxModels models
SpecTrain == Init /\ [][TrainNext(MaxModels)]_vars

\* a thread that can run does run, and so does a handler the loop is in
TrainFairness ==
    /\ \A j \in ModelIds :
          WF_vars(thread_begin(j) \/ thread_step(j) \/ thread_complete(j))
    /\ WF_vars(register_active_job \/ stop_training_job \/ join_training_thread)

\* the training service with as many models as jobs may run at a time, under
\* that scheduling
SpecTrainFair ==
    Init /\ [][TrainNext(MAX_TRAINING_JOBS)]_vars /\ TrainFairness

\* the training service under fine-tuning requests, one more than the limit
SpecLoad == Init /\ [][LoadNext(MAX_TRAINING_JOBS + 1)]_vars

\* the training service with the reading endpoints as well, and as many
\* models as jobs may run at a time
SpecAccess == Init /\ [][AccessNext(MAX_TRAINING_JOBS)]_vars

\* the agent service with every request of every user and MaxAgents agents
SpecAgent == Init /\ [][AgentNext(1..MaxAgents, Users)]_vars

\* the agent service with one agent more than the registry may hold, all of
\* one user
SpecRegistry == Init /\ [][AgentNext(1..(MAX_DEPLOYED_AGENTS + 1), Creators)]_vars

\* the document ingestion service with every upload and process request
SpecIngest == Init /\ [][IngestNext]_vars

-----------------------------------------------------------------------------
(* Claims *)

\* C1: every chunk chunk_text returns for a non-empty text, with the
\* fixed-size, sentence or paragraph strategy, is a contiguous slice of the
\* text.
C1_ChunksAreSlices ==
    (chunks.returned /\ text # <<>> /\ strategy \in Strategies) =>
        \A i \in 1..Len(chunks.list) : IsSlice(chunks.list[i], text)

\* a job whose thread was not signalled to stop and met no error
Clean(j) == j \in DOMAIN threads => ~threads[j].stop_event /\ ~threads[j].failed

StatusOrder ==
    {<<"pending", "preparing">>, <<"preparing", "running">>, <<"running", "completed">>}

C2_Step ==
    \A j \in DOMAIN jobs \cap DOMAIN jobs' :
        Clean(j)' =>
            /\ jobs'[j].status # jobs[j].status =>
                   <<jobs[j].status, jobs'[j].status>> \in StatusOrder
            /\ jobs'[j].progress >= jobs[j].progress
            /\ jobs'[j].progress # jobs[j].progress =>
                   \E k \in 0..(total_steps - 1) :
                       /\ jobs[j].progress = Progress(k)
                       /\ jobs'[j].progress = Progress(k + 1)

C2_Final ==
    \A j \in DOMAIN jobs :
        /\ jobs[j].status \in {"pending", "preparing"} => jobs[j].progress = 0
        /\ (j \in DOMAIN threads /\ threads[j].pc = "exit" /\ Clean(j)) =>
               jobs[j].status = "completed" /\ jobs[j].progress = 100

\* C2: a started training job whose thread is never signalled to stop and
\* meets no error goes PREPARING, RUNNING, COMPLETED; its progress never
\* decreases and rises from 0 to 100 step by step; and it ends COMPLETED with
\* progress 100.
C2_JobRunsToCompletion ==
    /\ [][C2_Step]_vars
    /\ []C2_Final
    /\ \A j \in ModelIds :
           (j \in DOMAIN threads) ~>
               \/ ~Clean(j)
               \/ /\ j \in DOMAIN jobs
                  /\ jobs[j].status = "completed" /\ jobs[j].progress = 100

C2_Witness ==
    \E j \in DOMAIN threads :
        /\ Clean(j) /\ threads[j].pc = "exit"
        /\ jobs[j].status = "completed" /\ jobs[j].progress = 100

\* C3: when the cancel endpoint answers "Training job cancelled" the job is
\* CANCELLED and has no entry in active_jobs.
C3_CancelledAfterSuccess ==
    (response.op = "cancel_training_job" /\ response.code = 200) =>
        /\ jobs[response.id].status = "cancelled"
        /\ response.id \notin active_jobs

\* C4: the registry never holds more than MAX_DEPLOYED_AGENTS agents, and
\* deploy_agent of an agent that is not in a full registry returns False and
\* leaves the registry as it is.
C4_Step ==
    (/\ reply'.op \in {"create_agent", "deploy_agent_endpoint"}
     /\ reply'.ret # "none"
     /\ reply'.id \notin DOMAIN deployed_agents
     /\ Cardinality(DOMAIN deployed_agents) >= MAX_DEPLOYED_AGENTS) =>
        /\ reply'.ret = "False"
        /\ deployed_agents' = deployed_agents

C4_RegistryBounded ==
    /\ [](Cardinality(DOMAIN deployed_agents) <= MAX_DEPLOYED_AGENTS)
    /\ [][C4_Step]_vars

C4_Witness ==
    /\ reply.op = "create_agent" /\ reply.ret = "False"
    /\ reply.id \notin DOMAIN deployed_agents
    /\ Cardinality(DOMAIN deployed_agents) = MAX_DEPLOYED_AGENTS

\* the jobs that have an entry in active_jobs and a live thread
RunningJobs == {j \in active_jobs : threads[j].pc # "exit"}

\* C5: at most MAX_TRAINING_JOBS training jobs run at a time.
C5_RunningJobsBounded == Cardinality(RunningJobs) <= MAX_TRAINING_JOBS

C6_Result ==
    reply.op \in {"create_agent", "deploy_agent_endpoint"} =>
        /\ reply.ret = "True" =>
               reply.id \in DOMAIN deployed_agents /\ reply.status = "deployed"
        /\ reply.ret = "False" => reply.id \notin DOMAIN deployed_agents

C6_Step ==
    (/\ reply'.op \in {"create_agent", "deploy_agent_endpoint"}
     /\ reply'.ret # "none"
     /\ reply'.id \in DOMAIN deployed_agents) =>
        /\ reply'.ret = "True"
        /\ deployed_agents' = deployed_agents

\* C6: deploy_agent returns True only with the agent in the registry and the
\* status of the agent it was given DEPLOYED, False only with the agent not in
\* the registry, and True without a change to the entry of an agent that was
\* in the registry already.
C6_DeployResult == []C6_Result /\ [][C6_Step]_vars

C7_Step ==
    (reply'.op \in {"stop_agent_endpoint", "delete_agent"} /\ reply'.ret # "none") =>
        /\ reply'.ret = "True"
        /\ reply'.id \notin DOMAIN deployed_agents'
        /\ IF reply'.id \in DOMAIN deployed_agents
           THEN /\ reply'.status = "stopped"
                /\ deployed_agents' = Remove(deployed_agents, reply'.id)
           ELSE /\ reply'.status = "none"
                /\ deployed_agents' = deployed_agents
                /\ reply'.op = "stop_agent_endpoint" =>
                       UNCHANGED <<agents, conversations>>

C7_Twice ==
    \A a \in 1..MaxAgents :
        LET once == stop_agent(deployed_agents, a)
            twice == stop_agent(once.registry, a)
        IN  twice.ret /\ twice.registry = once.registry

\* C7: after stop_agent the agent is not in the registry; a deployed agent
\* gets the status STOPPED and loses its entry with the conversations in it; a
\* call for an agent that is not deployed returns True and changes nothing, so
\* a second call leaves what the first one left.
C7_StopIdempotent == []C7_Twice /\ [][C7_Step]_vars

C7_Witness ==
    /\ reply.op = "stop_agent_endpoint" /\ reply.status = "stopped"
    /\ reply.id \in DOMAIN agents
    /\ reply.id \notin DOMAIN deployed_agents

C8_Answer ==
    (reply.op = "chat" /\ reply.owner) =>
        IF reply.id \in DOMAIN deployed_agents
        THEN reply.code # 400
        ELSE reply.code = 400

C8_Step ==
    (reply'.op = "chat" /\ reply'.owner /\ reply'.id \notin DOMAIN deployed_agents) =>
        UNCHANGED <<deployed_agents, conversations>>

\* C8: between a successful deploy of an agent (by create_agent or the deploy
\* endpoint) and its stop or deletion, which is while it is in the registry,
\* a chat request of the owner is not rejected as "Agent is not deployed";
\* outside that time it is rejected with 400 and no conversation is created
\* or changed.
C8_ChatWhileDeployed == []C8_Answer /\ [][C8_Step]_vars

IsInference == response.op \in {"run_inference", "run_rag_inference"}

\* C10 as stated: inference answers only for a READY model, any other status
\* gets 400, and RAG inference on a model that is not a RAG model gets 400.
C10_AsStated ==
    (IsInference /\ response.id \in DOMAIN models) =>
        /\ response.code = 200 => models[response.id].status = "ready"
        /\ models[response.id].status # "ready" => response.code = 400
        /\ (response.op = "run_rag_inference"
              /\ models[response.id].model_type # "rag") => response.code = 400

\* C10 amended: the same for a requester who owns the model or is an admin;
\* any other requester gets 403 whatever the status and the type.
C10_Inference ==
    (IsInference /\ response.id \in DOMAIN models) =>
        /\ response.code = 200 =>
               /\ models[response.id].status = "ready"
               /\ response.op = "run_rag_inference" =>
                      models[response.id].model_type = "rag"
        /\ response.access =>
               /\ models[response.id].status # "ready" => response.code = 400
               /\ (response.op = "run_rag_inference"
                     /\ models[response.id].model_type # "rag") => response.code = 400
        /\ ~response.access => response.code = 403

C10_Witness ==
    /\ response.op = "run_inference" /\ response.access
    /\ response.id \in DOMAIN models
    /\ models[response.id].status = "training"
    /\ response.code = 400

\* the endpoints that take a model id, and those that take a training job id
ModelEndpoints ==
    {"get_model", "delete_model", "list_training_jobs", "run_inference",
     "run_rag_inference"}
JobEndpoints == {"get_training_job", "cancel_training_job"}

\* the model a response is about, 0 when there is none
ModelOf(r) ==
    IF r.op \in ModelEndpoints THEN r.id
    ELSE IF r.op \in JobEndpoints /\ r.id \in DOMAIN jobs THEN jobs[r.id].model_id
    ELSE 0

C11_Step ==
    (/\ response'.op \in ModelEndpoints \cup JobEndpoints
     /\ ModelOf(response') \in DOMAIN models
     /\ ~response'.access) =>
        /\ response'.code = 403
        /\ UNCHANGED <<models, jobs, active_jobs, threads, tasks>>

\* C11: a request to get, delete, list the jobs of, or run inference or RAG
\* inference on a model, or to get or cancel a training job of a model, made
\* by a user who neither owns the model nor is an admin, is answered 403 and
\* leaves the models, the training jobs and active_jobs as they were.
C11_ForbiddenForOthers == [][C11_Step]_vars

C11_Witness ==
    /\ response.op = "cancel_training_job" /\ response.code = 403
    /\ ~response.access
    /\ response.id \in active_jobs
    /\ jobs[response.id].status = "running"

TooLarge(a) == a.size > max_file_size
BadExtension(a) == lower(a.ext) \notin allowed_extensions

C12_Answer ==
    answer.op = "upload_document" =>
        /\ (TooLarge(answer) /\ ~BadExtension(answer)) => answer.code = 413
        /\ (~TooLarge(answer) /\ BadExtension(answer)) => answer.code = 400
        /\ (TooLarge(answer) /\ BadExtension(answer)) => answer.code \in {413, 400}

C12_Step ==
    (answer'.op = "upload_document" /\ (TooLarge(answer') \/ BadExtension(answer'))) =>
        documents' = documents

\* C12: an upload of a file larger than the size limit is answered 413, an
\* upload of a file whose extension is not allowed is answered 400, and
\* neither creates a document row.
C12_UploadRejected == []C12_Answer /\ [][C12_Step]_vars

\* the step answers a process request for a document that is PROCESSING
AnswersProcessing ==
    /\ handler = Free
    /\ answer'.op = "process_document"
    /\ answer'.doc \in DOMAIN documents
    /\ documents[answer'.doc].status = "processing"

\* no step starts an execution for a document that is PROCESSING
C13_NoRestart ==
    \A d \in DOMAIN documents :
        documents[d].status = "processing" => executing'[d] <= executing[d]

C13_OneExecution == \A d \in DocIds : executing[d] <= 1

\* C13 as stated: every process request for a document that is PROCESSING is
\* answered 400 and changes nothing, and no document has two executions of
\* process_document in progress.
C13_AsStated ==
    /\ [][AnswersProcessing =>
             answer'.code = 400 /\ UNCHANGED <<documents, executing>>]_vars
    /\ [][C13_NoRestart]_vars
    /\ []C13_OneExecution

\* C13 amended: a process request of the owner for a document that is
\* PROCESSING is answered 400 and one of another user 403, either changes
\* nothing, no step starts an execution for a document that is PROCESSING,
\* and no document has two executions of process_document in progress.
C13_ProcessingRejected ==
    /\ [][AnswersProcessing =>
             /\ answer'.code =
                    IF answer'.user = documents[answer'.doc].user_id THEN 400 ELSE 403
             /\ UNCHANGED <<documents, executing>>]_vars
    /\ [][C13_NoRestart]_vars
    /\ []C13_OneExecution

C13_Witness ==
    /\ answer.op = "process_document" /\ answer.code = 400
    /\ answer.doc \in DOMAIN documents
    /\ answer.user = documents[answer.doc].user_id
    /\ documents[answer.doc].status = "processing"
    /\ executing[answer.doc] = 0

=============================================================================
